---- MODULE Spec2Model ----
(***************************************************************************)
(* Model of string_finder (src/src/lib.rs): the StringFinder iterator, a   *)
(* four-state automaton that extracts quote-fenced literals from a stream  *)
(* of characters.  A String is a sequence of one-character strings.  The   *)
(* character source `chars` is an arbitrary iterator: each pull yields any *)
(* character of Chars, or None.                                            *)
(***************************************************************************)
EXTENDS Integers, Sequences, FiniteSets, TLC

QUOTE == "\""
ESC == "\\"
\* the two characters lib.rs matches on, and two ordinary ones (the `_` arms)
Chars == {QUOTE, ESC, "a", "\n"}

\* longest input the source produces before it is exhausted
MaxLen == 7

\* deepest chain of handler calls the stack holds for one character
MaxDepth == 4

VARIABLES
    state,          \* StringFinder.state
    ignoring,       \* StringFinder.ignoring
    running_count,  \* StringFinder.running_count
    target_count,   \* StringFinder.target_count
    buffer,         \* StringFinder.buffer
    result,         \* StringFinder.result
    pc,             \* the consumer: "idle", "next" (inside next()), "done", "panicked"
    out,            \* the literals next() has returned, in order (collect::<Vec<String>>)
    pulled,         \* history: the characters chars.next() has yielded so far
    trace,          \* history: trace[i] is the automaton after the i-th character
    closes,         \* history: one record per close of a fence by count_end
    calls,          \* history: Len(pulled) at each call of next()
    returns         \* history: Len(pulled) at each return of Some(..) by next()

vars == <<state, ignoring, running_count, target_count, buffer, result,
          pc, out, pulled, trace, closes, calls, returns>>

States == {"Searching", "CountingStart", "InsideString", "CountingEnd"}

\* StringFinder::from: the automaton after construction
from ==
    [state |-> "Searching", ignoring |-> FALSE, running_count |-> 0,
     target_count |-> 0, buffer |-> <<>>, result |-> <<>>, panic |-> FALSE,
     hops |-> 0]

\* the automaton as one value (the fields of *self)
Self ==
    [state |-> state, ignoring |-> ignoring, running_count |-> running_count,
     target_count |-> target_count, buffer |-> buffer, result |-> result,
     panic |-> FALSE, hops |-> 0]

\* running_count and target_count are u32.  A subtraction that would go
\* below 0 panics (overflow checks of the debug build); the automaton is
\* then dead.  The increment in count_start cannot pass u32::MAX before
\* 2^32 characters have been pulled, far beyond MaxLen.
Panic(self) == [self EXCEPT !.panic = TRUE]

\* entry of a handler: hops counts the handler calls made for the current
\* character (process_char's dispatch and every re-dispatch); a chain that
\* does not end exhausts the stack, which kills the process
Enter(self) ==
    IF self.hops >= MaxDepth THEN Panic(self)
    ELSE [self EXCEPT !.hops = self.hops + 1]

\* buffer.push('"') executed n times
PushQuotes(buf, n) == buf \o [i \in 1..n |-> QUOTE]

RECURSIVE inside_string(_, _), count_end(_, _)

\* count_end recovering the quotes still missing instead of those consumed
count_end_missing(caller, c) ==
    LET self == Enter(caller) IN
    IF self.panic THEN self ELSE
    IF c = QUOTE
    THEN IF self.running_count < 1
         THEN Panic(self)
         ELSE LET n == self.running_count - 1 IN
              IF n = 0
              THEN [self EXCEPT !.running_count = 0,
                                !.target_count = 0,
                                !.buffer = self.result,
                                !.result = self.buffer,
                                !.state = "Searching"]
              ELSE [self EXCEPT !.running_count = n]
    ELSE inside_string(
           [self EXCEPT !.buffer = PushQuotes(self.buffer, self.running_count),
                        !.running_count = self.target_count,
                        !.state = "InsideString"], c)

\* count_end testing the counter for 0 before it decrements it
count_end_late(caller, c) ==
    LET self == Enter(caller) IN
    IF self.panic THEN self ELSE
    IF c = QUOTE
    THEN IF self.running_count = 0
         THEN [self EXCEPT !.target_count = 0,
                           !.buffer = self.result,
                           !.result = self.buffer,
                           !.state = "Searching"]
         ELSE [self EXCEPT !.running_count = self.running_count - 1]
    ELSE IF self.target_count < self.running_count
         THEN Panic(self)
         ELSE inside_string(
                [self EXCEPT !.buffer = PushQuotes(self.buffer,
                                   self.target_count - self.running_count),
                             !.running_count = self.target_count,
                             !.state = "InsideString"], c)

\* count_end leaving the state CountingEnd on a non-quote character and
\* re-dispatching the character to the handler of that state, itself
count_end_again(caller, c) ==
    LET self == Enter(caller) IN
    IF self.panic THEN self ELSE
    IF c = QUOTE
    THEN IF self.running_count < 1
         THEN Panic(self)
         ELSE LET n == self.running_count - 1 IN
              IF n = 0
              THEN [self EXCEPT !.running_count = 0,
                                !.target_count = 0,
                                !.buffer = self.result,
                                !.result = self.buffer,
                                !.state = "Searching"]
              ELSE [self EXCEPT !.running_count = n]
    ELSE IF self.target_count < self.running_count
         THEN Panic(self)
         ELSE count_end(
                [self EXCEPT !.buffer = PushQuotes(self.buffer,
                                   self.target_count - self.running_count),
                             !.running_count = self.target_count], c)

\* count_end not resetting the close counter after a too-short run
count_end_noreset(caller, c) ==
    LET self == Enter(caller) IN
    IF self.panic THEN self ELSE
    IF c = QUOTE
    THEN IF self.running_count < 1
         THEN Panic(self)
         ELSE LET n == self.running_count - 1 IN
              IF n = 0
              THEN [self EXCEPT !.running_count = 0,
                                !.target_count = 0,
                                !.buffer = self.result,
                                !.result = self.buffer,
                                !.state = "Searching"]
              ELSE [self EXCEPT !.running_count = n]
    ELSE IF self.target_count < self.running_count
         THEN Panic(self)
         ELSE inside_string(
                [self EXCEPT !.buffer = PushQuotes(self.buffer,
                                   self.target_count - self.running_count),
                             !.state = "InsideString"], c)

\* count_end closing without resetting the fence length
count_end_keep_target(caller, c) ==
    LET self == Enter(caller) IN
    IF self.panic THEN self ELSE
    IF c = QUOTE
    THEN IF self.running_count < 1
         THEN Panic(self)
         ELSE LET n == self.running_count - 1 IN
              IF n = 0
              THEN [self EXCEPT !.running_count = 0,
                                !.buffer = self.result,
                                !.result = self.buffer,
                                !.state = "Searching"]
              ELSE [self EXCEPT !.running_count = n]
    ELSE IF self.target_count < self.running_count
         THEN Panic(self)
         ELSE inside_string(
                [self EXCEPT !.buffer = PushQuotes(self.buffer,
                                   self.target_count - self.running_count),
                             !.running_count = self.target_count,
                             !.state = "InsideString"], c)

\* count_end closing with a copy of the buffer in place of the swap
count_end_copy(caller, c) ==
    LET self == Enter(caller) IN
    IF self.panic THEN self ELSE
    IF c = QUOTE
    THEN IF self.running_count < 1
         THEN Panic(self)
         ELSE LET n == self.running_count - 1 IN
              IF n = 0
              THEN [self EXCEPT !.running_count = 0,
                                !.target_count = 0,
                                !.result = self.buffer,
                                !.state = "Searching"]
              ELSE [self EXCEPT !.running_count = n]
    ELSE IF self.target_count < self.running_count
         THEN Panic(self)
         ELSE inside_string(
                [self EXCEPT !.buffer = PushQuotes(self.buffer,
                                   self.target_count - self.running_count),
                             !.running_count = self.target_count,
                             !.state = "InsideString"], c)

\* count_end with the reset after a too-short run assigned the wrong way
count_end_adopt(caller, c) ==
    LET self == Enter(caller) IN
    IF self.panic THEN self ELSE
    IF c = QUOTE
    THEN IF self.running_count < 1
         THEN Panic(self)
         ELSE LET n == self.running_count - 1 IN
              IF n = 0
              THEN [self EXCEPT !.running_count = 0,
                                !.target_count = 0,
                                !.buffer = self.result,
                                !.result = self.buffer,
                                !.state = "Searching"]
              ELSE [self EXCEPT !.running_count = n]
    ELSE IF self.target_count < self.running_count
         THEN Panic(self)
         ELSE inside_string(
                [self EXCEPT !.buffer = PushQuotes(self.buffer,
                                   self.target_count - self.running_count),
                             !.target_count = self.running_count,
                             !.state = "InsideString"], c)

\* count_end not putting back the quotes of a too-short run
count_end_drop(caller, c) ==
    LET self == Enter(caller) IN
    IF self.panic THEN self ELSE
    IF c = QUOTE
    THEN IF self.running_count < 1
         THEN Panic(self)
         ELSE LET n == self.running_count - 1 IN
              IF n = 0
              THEN [self EXCEPT !.running_count = 0,
                                !.target_count = 0,
                                !.buffer = self.result,
                                !.result = self.buffer,
                                !.state = "Searching"]
              ELSE [self EXCEPT !.running_count = n]
    ELSE inside_string(
           [self EXCEPT !.running_count = self.target_count,
                        !.state = "InsideString"], c)

\* fn count_end(&mut self, c)
count_end(caller, c) ==
    LET self == Enter(caller) IN
    IF self.panic THEN self ELSE
    IF c = QUOTE
    THEN IF self.running_count < 1
         THEN Panic(self)
         ELSE LET n == self.running_count - 1 IN
              IF n = 0
              THEN [self EXCEPT !.running_count = 0,
                                !.target_count = 0,
                                !.buffer = self.result,
                                !.result = self.buffer,
                                !.state = "Searching"]
              ELSE [self EXCEPT !.running_count = n]
    ELSE IF self.target_count < self.running_count
         THEN Panic(self)
         ELSE inside_string(
                [self EXCEPT !.buffer = PushQuotes(self.buffer,
                                   self.target_count - self.running_count),
                             !.running_count = self.target_count,
                             !.state = "InsideString"], c)

\* inside_string decoding the escape: the marker is not kept
inside_string_decode(caller, c) ==
    LET self == Enter(caller) IN
    IF self.panic THEN self ELSE
    IF self.ignoring
    THEN [self EXCEPT !.buffer = Append(self.buffer, c), !.ignoring = FALSE]
    ELSE IF c = QUOTE
         THEN count_end([self EXCEPT !.state = "CountingEnd"], c)
         ELSE IF c = ESC
              THEN [self EXCEPT !.ignoring = TRUE]
              ELSE [self EXCEPT !.buffer = Append(self.buffer, c)]

\* inside_string with an arm that drops the line break
inside_string_line(caller, c) ==
    LET self == Enter(caller) IN
    IF self.panic THEN self ELSE
    IF self.ignoring
    THEN [self EXCEPT !.buffer = Append(self.buffer, c), !.ignoring = FALSE]
    ELSE IF c = QUOTE
         THEN count_end([self EXCEPT !.state = "CountingEnd"], c)
         ELSE IF c = ESC
              THEN [self EXCEPT !.buffer = Append(self.buffer, c),
                                !.ignoring = TRUE]
              ELSE IF c = "\n"
                   THEN self
                   ELSE [self EXCEPT !.buffer = Append(self.buffer, c)]

\* inside_string leaving the escape flag set after the escaped character
inside_string_sticky(caller, c) ==
    LET self == Enter(caller) IN
    IF self.panic THEN self ELSE
    IF self.ignoring
    THEN [self EXCEPT !.buffer = Append(self.buffer, c)]
    ELSE IF c = QUOTE
         THEN count_end([self EXCEPT !.state = "CountingEnd"], c)
         ELSE IF c = ESC
              THEN [self EXCEPT !.buffer = Append(self.buffer, c),
                                !.ignoring = TRUE]
              ELSE [self EXCEPT !.buffer = Append(self.buffer, c)]

\* fn inside_string(&mut self, c)
inside_string(caller, c) ==
    LET self == Enter(caller) IN
    IF self.panic THEN self ELSE
    IF self.ignoring
    THEN [self EXCEPT !.buffer = Append(self.buffer, c), !.ignoring = FALSE]
    ELSE IF c = QUOTE
         THEN count_end([self EXCEPT !.state = "CountingEnd"], c)
         ELSE IF c = ESC
              THEN [self EXCEPT !.buffer = Append(self.buffer, c),
                                !.ignoring = TRUE]
              ELSE [self EXCEPT !.buffer = Append(self.buffer, c)]

\* count_start entering InsideString without re-processing the character
count_start_skip(caller, c) ==
    LET self == Enter(caller) IN
    IF self.panic THEN self ELSE
    IF c = QUOTE
    THEN [self EXCEPT !.running_count = self.running_count + 1]
    ELSE [self EXCEPT !.target_count = self.running_count,
                      !.state = "InsideString"]

\* fn count_start(&mut self, c)
count_start(caller, c) ==
    LET self == Enter(caller) IN
    IF self.panic THEN self ELSE
    IF c = QUOTE
    THEN [self EXCEPT !.running_count = self.running_count + 1]
    ELSE inside_string([self EXCEPT !.target_count = self.running_count,
                                    !.state = "InsideString"], c)

\* search matching the quote character before it consults the escape flag
search_quote_first(caller, c) ==
    LET self == Enter(caller) IN
    IF self.panic THEN self ELSE
    IF c = QUOTE
    THEN count_start([self EXCEPT !.state = "CountingStart",
                                  !.ignoring = FALSE], c)
    ELSE IF ~self.ignoring
         THEN IF c = ESC
              THEN [self EXCEPT !.ignoring = TRUE]
              ELSE self
         ELSE [self EXCEPT !.ignoring = FALSE]

\* search taking the escape character for a quote character as well
search_escape_opens(caller, c) ==
    LET self == Enter(caller) IN
    IF self.panic THEN self ELSE
    IF ~self.ignoring
    THEN IF c = QUOTE \/ c = ESC
         THEN count_start([self EXCEPT !.state = "CountingStart"], c)
         ELSE self
    ELSE [self EXCEPT !.ignoring = FALSE]

\* search entering CountingStart without re-processing the quote character
search_drop_first(caller, c) ==
    LET self == Enter(caller) IN
    IF self.panic THEN self ELSE
    IF ~self.ignoring
    THEN IF c = QUOTE
         THEN [self EXCEPT !.state = "CountingStart"]
         ELSE IF c = ESC
              THEN [self EXCEPT !.ignoring = TRUE]
              ELSE self
    ELSE [self EXCEPT !.ignoring = FALSE]

\* fn search(&mut self, c)
search(caller, c) ==
    LET self == Enter(caller) IN
    IF self.panic THEN self ELSE
    IF ~self.ignoring
    THEN IF c = QUOTE
         THEN count_start([self EXCEPT !.state = "CountingStart"], c)
         ELSE IF c = ESC
              THEN [self EXCEPT !.ignoring = TRUE]
              ELSE self
    ELSE [self EXCEPT !.ignoring = FALSE]

\* fn process_char(&mut self, c)
process_char(self, c) ==
    CASE self.state = "Searching"     -> search(self, c)
      [] self.state = "CountingStart" -> count_start(self, c)
      [] self.state = "InsideString"  -> inside_string(self, c)
      [] self.state = "CountingEnd"   -> count_end(self, c)

Init ==
    /\ state = from.state
    /\ ignoring = from.ignoring
    /\ running_count = from.running_count
    /\ target_count = from.target_count
    /\ buffer = from.buffer
    /\ result = from.result
    /\ pc = "idle"
    /\ out = <<>>
    /\ pulled = <<>>
    /\ trace = <<>>
    /\ closes = <<>>
    /\ calls = <<>>
    /\ returns = <<>>

\* the consumer calls next()
Call ==
    /\ pc = "idle"
    /\ pc' = "next"
    /\ calls' = Append(calls, Len(pulled))
    /\ UNCHANGED <<state, ignoring, running_count, target_count, buffer,
                   result, out, pulled, trace, closes, returns>>

\* Pull in a loop that tests result only after it has pulled and processed
Pull_eager(c) ==
    /\ pc = "next"
    /\ Len(pulled) < MaxLen
    /\ LET s == process_char(Self, c) IN
        /\ state' = s.state
        /\ ignoring' = s.ignoring
        /\ running_count' = s.running_count
        /\ target_count' = s.target_count
        /\ buffer' = s.buffer
        /\ result' = s.result
        /\ pc' = IF s.panic THEN "panicked" ELSE "next"
        /\ pulled' = Append(pulled, c)
        /\ trace' = Append(trace, s)
        /\ closes' = IF state # "Searching" /\ s.state = "Searching"
                     THEN Append(closes, [content |-> s.result,
                                          at |-> Len(pulled) + 1])
                     ELSE closes
    /\ UNCHANGED <<out, calls, returns>>

\* next(): one turn of the while loop in which chars.next() is Some(c)
Pull(c) ==
    /\ pc = "next"
    /\ result = <<>>
    /\ Len(pulled) < MaxLen
    /\ LET s == process_char(Self, c) IN
        /\ state' = s.state
        /\ ignoring' = s.ignoring
        /\ running_count' = s.running_count
        /\ target_count' = s.target_count
        /\ buffer' = s.buffer
        /\ result' = s.result
        /\ pc' = IF s.panic THEN "panicked" ELSE "next"
        /\ pulled' = Append(pulled, c)
        /\ trace' = Append(trace, s)
        /\ closes' = IF state # "Searching" /\ s.state = "Searching"
                     THEN Append(closes, [content |-> s.result,
                                          at |-> Len(pulled) + 1])
                     ELSE closes
    /\ UNCHANGED <<out, calls, returns>>

\* ReturnSome with the literal put in front of those returned before
ReturnSome_front ==
    /\ pc = "next"
    /\ result # <<>>
    /\ out' = <<result>> \o out
    /\ result' = <<>>
    /\ returns' = Append(returns, Len(pulled))
    /\ pc' = "idle"
    /\ UNCHANGED <<state, ignoring, running_count, target_count, buffer,
                   pulled, trace, closes, calls>>

\* ReturnSome returning a copy of result and leaving result set
ReturnSome_keep ==
    /\ pc = "next"
    /\ result # <<>>
    /\ out' = Append(out, result)
    /\ returns' = Append(returns, Len(pulled))
    /\ pc' = "idle"
    /\ UNCHANGED <<state, ignoring, running_count, target_count, buffer,
                   result, pulled, trace, closes, calls>>

\* next(): result is not empty, the loop ends and Some(result) is returned
ReturnSome ==
    /\ pc = "next"
    /\ result # <<>>
    /\ out' = Append(out, result)
    /\ result' = <<>>
    /\ returns' = Append(returns, Len(pulled))
    /\ pc' = "idle"
    /\ UNCHANGED <<state, ignoring, running_count, target_count, buffer,
                   pulled, trace, closes, calls>>

\* ReturnNone handing out what is buffered for the open fence
ReturnNone_flush ==
    /\ pc = "next"
    /\ result = <<>>
    /\ pc' = "done"
    /\ out' = IF buffer = <<>> THEN out ELSE Append(out, buffer)
    /\ UNCHANGED <<state, ignoring, running_count, target_count, buffer,
                   result, pulled, trace, closes, calls, returns>>

\* next(): chars.next() is None, next() returns None
ReturnNone ==
    /\ pc = "next"
    /\ result = <<>>
    /\ pc' = "done"
    /\ UNCHANGED <<state, ignoring, running_count, target_count, buffer,
                   result, out, pulled, trace, closes, calls, returns>>

Next ==
    \/ Call
    \/ \E c \in Chars : Pull(c)
    \/ ReturnSome
    \/ ReturnNone

Spec == Init /\ [][Next]_vars

\* next() is a synchronous loop over a finite source: a call that can
\* return does return, with a literal or, the source being finite, with None
FairSpec ==
    /\ Spec
    /\ WF_vars(ReturnSome)
    /\ WF_vars(ReturnNone)

\* the automaton after the first i characters have been processed
At(i) == IF i = 0 THEN from ELSE [trace[i] EXCEPT !.hops = 0]

\* the number of handler calls the i-th character caused
Hops(i) == trace[i].hops

\* the characters i+1 .. i+k of the input are all quote characters
QuoteRun(i, k) == \A j \in (i + 1)..(i + k) : pulled[j] = QUOTE

\* the sequence of k quote characters
Quotes(k) == [j \in 1..k |-> QUOTE]

\* C1: the k-th literal returned by next() is the content of the k-th fence
\* that closes in the input; closes and returns advance left to right, and
\* once the iterator is drained every closed literal has been returned.
C1_LeftToRightOrder ==
    /\ Len(out) <= Len(closes)
    /\ \A k \in 1..Len(out) : out[k] = closes[k].content
    /\ \A k \in 1..(Len(closes) - 1) : closes[k].at < closes[k + 1].at
    /\ \A k \in 1..(Len(returns) - 1) : returns[k] < returns[k + 1]
    /\ pc = "done" => Len(out) = Len(closes)

C1_Witness ==
    /\ pc = "done"
    /\ Len(out) = 2
    /\ out[1] # out[2]

\* C2: inside a fence of length N, a run of k < N quote characters followed
\* by a non-quote character does not close the fence: the automaton is back
\* in InsideString with the same fence length, nothing was handed to result,
\* and the content grew by exactly k quote characters and that character.
C2_ShortRunKept ==
    \A i \in 0..Len(pulled), k \in 1..MaxLen :
        ( /\ At(i).state = "InsideString"
          /\ ~At(i).ignoring
          /\ k < At(i).target_count
          /\ i + k + 1 <= Len(pulled)
          /\ QuoteRun(i, k)
          /\ pulled[i + k + 1] # QUOTE )
        => /\ At(i + k + 1).state = "InsideString"
           /\ At(i + k + 1).target_count = At(i).target_count
           /\ At(i + k + 1).buffer
                = At(i).buffer \o Quotes(k) \o <<pulled[i + k + 1]>>
           /\ \A j \in (i + 1)..(i + k + 1) : At(j).result = <<>>

C2_Witness ==
    \E i \in 0..Len(pulled) :
        /\ At(i).state = "InsideString"
        /\ ~At(i).ignoring
        /\ At(i).target_count = 3
        /\ i + 3 <= Len(pulled)
        /\ QuoteRun(i, 2)
        /\ pulled[i + 3] # QUOTE
        /\ state = "InsideString"

\* the positions of the quote characters of the input
QuotePositions == {j \in 1..Len(pulled) : pulled[j] = QUOTE}

\* the length of the run of escape characters that ends right before q
EscapesBefore(q) ==
    Cardinality({n \in 1..(q - 1) :
                    \A j \in (q - n)..(q - 1) : pulled[j] = ESC})

\* the input is quote-free, escape-free text around one pair of quote
\* characters at p and q with no quote character between them
SingleFenced(p, q) ==
    /\ p < q
    /\ QuotePositions = {p, q}
    /\ \A j \in 1..Len(pulled) : (j < p \/ j > q) => pulled[j] # ESC

\* C3 as stated: one quote, any quote-free interior, one quote yields exactly
\* the interior.
C3_RoundTripAnyInterior ==
    \A p, q \in 1..Len(pulled) :
        (pc = "done" /\ SingleFenced(p, q))
        => out = <<SubSeq(pulled, p + 1, q - 1)>>

\* C3 amended: the round trip holds when the interior is not empty and does
\* not end in an odd-length run of escape characters.
C3_RoundTrip ==
    \A p, q \in 1..Len(pulled) :
        ( /\ pc = "done"
          /\ SingleFenced(p, q)
          /\ q > p + 1
          /\ EscapesBefore(q) % 2 = 0 )
        => out = <<SubSeq(pulled, p + 1, q - 1)>>

C3_Witness ==
    \E p, q \in 1..Len(pulled) :
        /\ pc = "done"
        /\ SingleFenced(p, q)
        /\ q > p + 3
        /\ EscapesBefore(q) = 2
        /\ p > 1
        /\ q < Len(pulled)
        /\ out = <<SubSeq(pulled, p + 1, q - 1)>>

\* the length of the fence that the k-th close closed
Fence(k) == At(closes[k].at - 1).target_count

\* the input positions of the last and the first character of the k-th
\* closed literal: its closing fence ends at closes[k].at
LitLast(k) == closes[k].at - Fence(k)
LitFirst(k) == LitLast(k) - Len(closes[k].content) + 1

\* C4: in Searching, a quote character right after an unconsumed escape
\* character opens no fence: after it the state is Searching, the flag is
\* clear, the counters and the buffer are untouched, and neither of the two
\* characters lies inside the input slice of any yielded literal.
C4_EscapedQuoteOutside ==
    \A i \in 1..(Len(pulled) - 1) :
        ( /\ At(i).state = "Searching"
          /\ At(i).ignoring
          /\ pulled[i + 1] = QUOTE )
        => /\ pulled[i] = ESC
           /\ At(i + 1) = [At(i) EXCEPT !.ignoring = FALSE]
           /\ At(i + 1).state = "Searching"
           /\ At(i + 1).running_count = 0
           /\ At(i + 1).buffer = <<>>
           /\ \A k \in 1..Len(closes) :
                /\ closes[k].content
                     = SubSeq(pulled, LitFirst(k), LitLast(k))
                /\ i \notin LitFirst(k)..LitLast(k)
                /\ (i + 1) \notin LitFirst(k)..LitLast(k)
           /\ \A k \in 1..Len(out) : out[k] = closes[k].content

C4_Witness ==
    \E i \in 1..(Len(pulled) - 1) :
        /\ At(i).state = "Searching"
        /\ At(i).ignoring
        /\ pulled[i + 1] = QUOTE
        /\ pc = "done"
        /\ Len(out) = 1
        /\ closes[1].at > i + 1

\* C5: in InsideString, an escape character followed by any character c
\* appends the escape character and then c to the content; no closing
\* attempt starts and nothing closes: the state is InsideString after c.
C5_EscapeInsideKept ==
    \A i \in 0..(Len(pulled) - 2) :
        ( /\ At(i).state = "InsideString"
          /\ ~At(i).ignoring
          /\ pulled[i + 1] = ESC )
        => /\ At(i + 1)
                = [At(i) EXCEPT !.buffer = Append(At(i).buffer, ESC),
                                !.ignoring = TRUE]
           /\ At(i + 2)
                = [At(i) EXCEPT !.buffer = At(i).buffer
                                            \o <<ESC, pulled[i + 2]>>]

C5_Witness ==
    \E i \in 0..(Len(pulled) - 2) :
        /\ At(i).state = "InsideString"
        /\ ~At(i).ignoring
        /\ pulled[i + 1] = ESC
        /\ pulled[i + 2] = QUOTE
        /\ Len(out) = 1
        /\ out[1] = At(i + 2).buffer

\* the positions at which a character took the automaton back to Searching
ClosePositions ==
    {i \in 1..Len(pulled) :
        At(i - 1).state # "Searching" /\ At(i).state = "Searching"}

\* C6: an input without a quote character yields nothing: the automaton
\* never leaves Searching, nothing is buffered or pending, next() never
\* returns a literal, and the first call returns None.
C6_NoQuoteNoLiteral ==
    QuotePositions = {}
    => /\ \A i \in 0..Len(pulled) :
            /\ At(i).state = "Searching"
            /\ At(i).buffer = <<>>
            /\ At(i).result = <<>>
       /\ out = <<>>
       /\ returns = <<>>
       /\ pc # "panicked"
       /\ pc = "done" => Len(calls) = 1

C6_Witness ==
    /\ QuotePositions = {}
    /\ pc = "done"
    /\ Len(pulled) = MaxLen
    /\ \E i \in 1..Len(pulled) : pulled[i] = ESC
    /\ \E i \in 1..Len(pulled) : pulled[i] = "a"

\* C7: when the input ends with a fence open or an escape pending, next()
\* returns None without a failure, nothing is returned for the open part
\* (what is returned is exactly the literals closed before, all of them).
C7_UnterminatedSilent ==
    /\ pc # "panicked"
    /\ (pc = "done" /\ (state # "Searching" \/ ignoring))
       => /\ result = <<>>
          /\ Len(out) = Len(closes)
          /\ \A k \in 1..Len(out) :
                /\ out[k] = closes[k].content
                /\ closes[k].at < Len(pulled)

C7_Witness ==
    /\ pc = "done"
    /\ state = "CountingEnd"
    /\ buffer # <<>>
    /\ Len(out) = 1

\* C8: one literal per close: every close sets the pending result, nothing
\* else does, each pending result is returned once, and result is empty
\* again once next() has returned it.
C8_OnePerClose ==
    /\ Len(closes) = Len(out) + (IF result = <<>> THEN 0 ELSE 1)
    /\ {closes[k].at : k \in 1..Len(closes)} = ClosePositions
    /\ Cardinality(ClosePositions) = Len(closes)
    /\ \A i \in 1..Len(pulled) :
            At(i).result # <<>> <=> i \in ClosePositions
    /\ result # <<>>
       => /\ pc = "next"
          /\ closes[Len(closes)].at = Len(pulled)
          /\ closes[Len(closes)].content = result
    /\ Len(returns) = Len(out)
    /\ pc = "done" => Len(out) = Cardinality(ClosePositions)

C8_Witness ==
    /\ pc = "idle"
    /\ Len(out) = 2
    /\ result = <<>>
    /\ Cardinality(ClosePositions) = 2

\* C9: a run of more than fenceLength quote characters inside an open fence
\* closes the literal at its fenceLength-th quote, leaving the automaton as
\* constructed but for the pending result; each further quote of the run
\* counts into the opening fence of a new literal.
C9_OvershootReopens ==
    \A i \in 0..Len(pulled), m \in 1..MaxLen :
        ( /\ At(i).state = "InsideString"
          /\ ~At(i).ignoring
          /\ i + At(i).target_count + m <= Len(pulled)
          /\ QuoteRun(i, At(i).target_count + m) )
        => LET N == At(i).target_count IN
           /\ \A j \in 1..(N - 1) :
                /\ At(i + j).state = "CountingEnd"
                /\ At(i + j).result = <<>>
           /\ At(i + N) = [from EXCEPT !.result = At(i).buffer]
           /\ \E k \in 1..Len(closes) :
                /\ closes[k].at = i + N
                /\ closes[k].content = At(i).buffer
           /\ At(i + N + m)
                = [from EXCEPT !.state = "CountingStart",
                               !.running_count = m]

C9_Witness ==
    \E i \in 0..Len(pulled) :
        /\ At(i).state = "InsideString"
        /\ ~At(i).ignoring
        /\ At(i).target_count = 2
        /\ i + 3 <= Len(pulled)
        /\ QuoteRun(i, 3)
        /\ state = "InsideString"
        /\ target_count = 1
        /\ Len(out) = 1

\* C10: the call of next() that returns the k-th literal is the call during
\* which the k-th fence closes, and when it returns it has pulled exactly
\* the characters up to the last quote of that closing fence.
C10_Lazy ==
    /\ Len(returns) = Len(out)
    /\ Len(returns) <= Len(closes)
    /\ Len(returns) <= Len(calls)
    /\ \A k \in 1..Len(returns) :
            /\ returns[k] = closes[k].at
            /\ pulled[returns[k]] = QUOTE
            /\ calls[k] < closes[k].at
            /\ k > 1 => calls[k] = returns[k - 1]
            /\ out[k] = closes[k].content
    /\ result # <<>> => closes[Len(closes)].at = Len(pulled)

C10_Witness ==
    /\ pc = "idle"
    /\ Len(out) = 2
    /\ returns[2] = Len(pulled)
    /\ calls[2] = returns[1]
    /\ calls[2] + 3 <= returns[2]

\* C11: a line break is handled in every state as any other character that
\* is neither a quote nor an escape: outside a fence it is dropped, after an
\* opening or a too-short closing run it becomes content, inside a fence it
\* is appended; a closed literal holds every line break of its input slice
\* and is returned as one literal.
C11_LineBreakOrdinary ==
    /\ \A i \in 0..(Len(pulled) - 1) :
        pulled[i + 1] = "\n"
        => LET a == [At(i) EXCEPT !.result = <<>>] IN
           CASE a.state = "Searching" ->
                    At(i + 1) = [a EXCEPT !.ignoring = FALSE]
             [] a.state = "CountingStart" ->
                    At(i + 1) = [a EXCEPT !.state = "InsideString",
                                          !.target_count = a.running_count,
                                          !.buffer = <<"\n">>]
             [] a.state = "InsideString" ->
                    At(i + 1) = [a EXCEPT !.buffer = Append(a.buffer, "\n"),
                                          !.ignoring = FALSE]
             [] a.state = "CountingEnd" ->
                    At(i + 1) = [a EXCEPT !.state = "InsideString",
                                          !.running_count = a.target_count,
                                          !.buffer = a.buffer
                                             \o Quotes(a.target_count
                                                        - a.running_count)
                                             \o <<"\n">>]
    /\ \A k \in 1..Len(closes) :
        /\ Len(closes[k].content) >= 1
        /\ LitFirst(k) >= 1
        /\ \A j \in LitFirst(k)..LitLast(k) :
              pulled[j] = "\n" => closes[k].content[j - LitFirst(k) + 1] = "\n"
        /\ k <= Len(out) => out[k] = closes[k].content

C11_Witness ==
    /\ pc = "done"
    /\ out = << <<"a", "\n", "a">> >>
    /\ pulled[1] = "\n"

\* C12: every character is pulled once and causes one or two handler calls
\* (two exactly when a handler re-dispatches it; never a cycle), no call of
\* next() fails, a drained iterator has ended with one call returning None,
\* and every call of next() returns.
C12_Terminates ==
    /\ [](/\ pc # "panicked"
          /\ Len(trace) = Len(pulled)
          /\ Len(pulled) <= MaxLen
          /\ \A i \in 1..Len(pulled) :
                /\ Hops(i) \in {1, 2}
                /\ Hops(i) = 2
                   <=> \/ At(i - 1).state = "Searching"
                          /\ At(i).state = "CountingStart"
                       \/ At(i - 1).state = "CountingStart"
                          /\ At(i).state = "InsideString"
                       \/ At(i - 1).state = "InsideString"
                          /\ At(i).state \in {"CountingEnd", "Searching"}
                       \/ At(i - 1).state = "CountingEnd"
                          /\ At(i).state = "InsideString"
          /\ pc = "done" => Len(calls) = Len(out) + 1)
    /\ (pc = "next") ~> (pc \in {"idle", "done"})

C12_Witness ==
    /\ pc = "done"
    /\ Len(pulled) = MaxLen
    /\ Len(out) = 1
    /\ \E i \in 1..Len(pulled) :
            At(i - 1).state = "CountingEnd" /\ Hops(i) = 2

\* C13: in InsideString the close counter equals the fence length, after the
\* opening and after every too-short closing run, so the first quote of
\* every closing attempt leaves fenceLength - 1 quotes to go.
C13_CloseCounterFull ==
    /\ state = "InsideString" => running_count = target_count
    /\ \A i \in 0..Len(pulled) :
        At(i).state = "InsideString"
        => /\ At(i).running_count = At(i).target_count
           /\ (i < Len(pulled) /\ ~At(i).ignoring /\ pulled[i + 1] = QUOTE)
              => IF At(i).target_count = 1
                 THEN At(i + 1).state = "Searching"
                 ELSE /\ At(i + 1).state = "CountingEnd"
                      /\ At(i + 1).running_count = At(i).target_count - 1
                      /\ At(i + 1).target_count = At(i).target_count

C13_Witness ==
    \E i \in 1..(Len(pulled) - 2) :
        /\ At(i).state = "CountingEnd"
        /\ At(i + 1).state = "InsideString"
        /\ At(i + 2).state = "CountingEnd"
        /\ At(i + 2).running_count = At(i + 2).target_count - 1

\* C14: the fence length is 0 in Searching and at least 1 in InsideString
\* and in CountingEnd, now and after every character processed so far.
C14_FenceLengthRange ==
    /\ state = "Searching" => target_count = 0
    /\ state \in {"InsideString", "CountingEnd"} => target_count >= 1
    /\ \A i \in 0..Len(pulled) :
        /\ At(i).state = "Searching" => At(i).target_count = 0
        /\ At(i).state \in {"InsideString", "CountingEnd"}
           => At(i).target_count >= 1

C14_Witness ==
    /\ state = "Searching"
    /\ Len(out) = 1
    /\ Len(pulled) > closes[1].at
    /\ \E i \in 1..Len(pulled) :
            At(i).state = "CountingEnd" /\ At(i).target_count = 2

\* C15: the buffer is empty in Searching and in CountingStart: it changes
\* only on a step that ends in InsideString, and the step that closes a
\* fence moves all of it into a result that was empty.
C15_BufferEmptyOutside ==
    /\ state \in {"Searching", "CountingStart"} => buffer = <<>>
    /\ \A i \in 1..Len(pulled) :
        /\ At(i).state \in {"Searching", "CountingStart"}
           => At(i).buffer = <<>>
        /\ At(i).buffer # At(i - 1).buffer
           => At(i).state = "InsideString" \/ i \in ClosePositions
        /\ i \in ClosePositions
           => /\ At(i).result = At(i - 1).buffer
              /\ i < Len(pulled) => At(i + 1).buffer \in {<<>>, <<pulled[i + 1]>>}

C15_Witness ==
    /\ state = "InsideString"
    /\ Len(closes) = 1
    /\ Len(pulled) = closes[1].at + 2
    /\ buffer = <<pulled[Len(pulled)]>>

\* C16: the fence length is fixed by the step that leaves CountingStart, to
\* the length of the opening run, and no later step inside the fence
\* changes it, too-short closing runs included.
C16_FenceLengthFixed ==
    \A i \in 1..Len(pulled) :
        /\ (At(i - 1).state = "CountingStart" /\ At(i).state # "CountingStart")
           => /\ At(i).state = "InsideString"
              /\ At(i).target_count = At(i - 1).running_count
              /\ \A j \in (i - At(i).target_count)..(i - 1) :
                    j >= 1 /\ pulled[j] = QUOTE
        /\ ( /\ At(i - 1).state \in {"InsideString", "CountingEnd"}
             /\ At(i).state \in {"InsideString", "CountingEnd"} )
           => At(i).target_count = At(i - 1).target_count

C16_Witness ==
    \E i \in 1..(Len(pulled) - 1) :
        /\ At(i).state = "CountingEnd"
        /\ At(i).target_count = 3
        /\ At(i).running_count = 1
        /\ At(i + 1).state = "InsideString"
        /\ At(i + 1).target_count = 3

\* C17: the escape flag is set only by an escape character read with the
\* flag clear, in Searching or InsideString, and is clear again after the
\* next character whatever that is (an escaped escape character escapes
\* nothing); it is never set in CountingStart or CountingEnd.
C17_EscapeOneCharacter ==
    /\ state \in {"CountingStart", "CountingEnd"} => ~ignoring
    /\ \A i \in 0..Len(pulled) :
        /\ At(i).state \in {"CountingStart", "CountingEnd"}
           => ~At(i).ignoring
        /\ At(i).ignoring
           => /\ i >= 1
              /\ pulled[i] = ESC
              /\ ~At(i - 1).ignoring
              /\ At(i).state \in {"Searching", "InsideString"}
              /\ i < Len(pulled)
                 => /\ ~At(i + 1).ignoring
                    /\ At(i + 1).state = At(i).state
        /\ (i >= 1 /\ pulled[i] = ESC /\ ~At(i - 1).ignoring
                   /\ At(i).state \in {"Searching", "InsideString"})
           => At(i).ignoring

C17_Witness ==
    \E i \in 1..(Len(pulled) - 2) :
        /\ At(i).state = "InsideString"
        /\ At(i).ignoring
        /\ pulled[i + 1] = ESC
        /\ ~At(i + 1).ignoring
        /\ pulled[i + 2] = QUOTE
        /\ At(i + 2).state = "Searching"

\* the position of the last quote of the opening fence of the k-th closed
\* literal: the last character before the close that left the automaton
\* in CountingStart
OpenEnd(k) ==
    CHOOSE j \in 1..closes[k].at :
        /\ At(j).state = "CountingStart"
        /\ \A h \in (j + 1)..closes[k].at : At(h).state # "CountingStart"

\* C18: a returned literal is the input slice from the character after the
\* last quote of its opening fence to the character before the first quote
\* of its closing fence; both fences are runs of Fence(k) quote characters,
\* the opening one started in Searching, and the slice has no quote at
\* its first position.
C18_LiteralIsSlice ==
    \A k \in 1..Len(closes) :
        /\ \E j \in 1..closes[k].at : At(j).state = "CountingStart"
        /\ closes[k].content = SubSeq(pulled, OpenEnd(k) + 1, LitLast(k))
        /\ OpenEnd(k) + 1 <= LitLast(k)
        /\ pulled[OpenEnd(k) + 1] # QUOTE
        /\ \A j \in (OpenEnd(k) - Fence(k) + 1)..OpenEnd(k) :
              j >= 1 /\ pulled[j] = QUOTE
        /\ At(OpenEnd(k) - Fence(k)).state = "Searching"
        /\ \A j \in (LitLast(k) + 1)..closes[k].at : pulled[j] = QUOTE
        /\ k <= Len(out) => out[k] = SubSeq(pulled, OpenEnd(k) + 1, LitLast(k))

C18_Witness ==
    /\ Len(out) = 1
    /\ Fence(1) = 2
    /\ out[1] = <<ESC, QUOTE, "a">>
    /\ pulled[OpenEnd(1)] = QUOTE

\* C19: a literal is never empty: the buffer holds at least one character
\* whenever a fence is open, so every close sets a non-empty result and
\* next() returns it; two quote characters read from Searching and followed
\* by a non-quote character are an opening fence of length 2.
C19_LiteralNotEmpty ==
    /\ \A k \in 1..Len(out) : Len(out[k]) >= 1
    /\ \A k \in 1..Len(closes) : Len(closes[k].content) >= 1
    /\ \A i \in 0..Len(pulled) :
        /\ At(i).state \in {"InsideString", "CountingEnd"}
           => Len(At(i).buffer) >= 1
        /\ (i >= 1 /\ i \in ClosePositions) => At(i).result # <<>>
        /\ ( /\ At(i).state = "Searching"
             /\ ~At(i).ignoring
             /\ i + 3 <= Len(pulled)
             /\ QuoteRun(i, 2)
             /\ pulled[i + 3] # QUOTE )
           => /\ At(i + 3).state = "InsideString"
              /\ At(i + 3).target_count = 2
              /\ At(i + 3).buffer = <<pulled[i + 3]>>
              /\ \A j \in (i + 1)..(i + 3) : j \notin ClosePositions
    /\ pc \in {"idle", "done"} => Len(out) = Len(closes)

C19_Witness ==
    /\ pc = "done"
    /\ Len(out) = 1
    /\ Len(out[1]) = 1
    /\ Fence(1) = 2
    /\ pulled[1] = QUOTE

\* C20: the u32 counters never go below 0: in CountingEnd the close counter
\* is at least 1 and at most the fence length, so neither subtraction of
\* count_end underflows and no step panics.
C20_NoUnderflow ==
    /\ pc # "panicked"
    /\ running_count >= 0
    /\ target_count >= 0
    /\ state = "CountingEnd"
       => running_count >= 1 /\ running_count <= target_count
    /\ \A i \in 0..Len(pulled) :
        /\ ~At(i).panic
        /\ At(i).running_count >= 0
        /\ At(i).target_count >= 0
        /\ At(i).state = "CountingEnd"
           => /\ At(i).running_count >= 1
              /\ At(i).running_count <= At(i).target_count

C20_Witness ==
    /\ state = "Searching"
    /\ Len(closes) = 1
    /\ Fence(1) = 3
    /\ At(Len(pulled) - 1).state = "CountingEnd"
    /\ At(Len(pulled) - 1).running_count = 1

====
